---- MODULE Spec2Model ----
(***************************************************************************)
(* Model of src/src/analysis/data_process.py: class DataProcessor.         *)
(*                                                                         *)
(* A run is one call of one public method of a freshly constructed         *)
(* DataProcessor.  Init draws the call (method and arguments) from bounded *)
(* sets; one action per method applies it.  full_pipeline is split into    *)
(* its stage calls so that the order of the stages is visible.             *)
(*                                                                         *)
(* Floating point cells are records [t, n, d]:                             *)
(*   t = "num"  the number n / d                                           *)
(*   t = "ln"   the number ln(n / d)                                       *)
(*   t = "abs"  a finite float whose value the model does not track        *)
(*   t = "nan"  the missing marker (NaN),  t = "inf" / "ninf"  +-infinity   *)
(***************************************************************************)
EXTENDS Integers, Sequences, FiniteSets, TLC

VARIABLES req, pc, attrs, df, out, raised, logs, trace, writes

vars == <<req, pc, attrs, df, out, raised, logs, trace, writes>>

\* ------------------------------------------------------------------ bounds
MaxRows == 31
MaxKlines == 25
MaxH == 3
MaxPathLen == 4

\* ------------------------------------------------------- program constants
SmaWindow == 20
GarchMinObs == 10
RowWidth == 12
DropNum == 95
DropDen == 100

\* ------------------------------------------------------------------- cells
Num(v) == [t |-> "num", n |-> v, d |-> 1]
NaN == [t |-> "nan", n |-> 0, d |-> 1]
Inf == [t |-> "inf", n |-> 0, d |-> 1]
NInf == [t |-> "ninf", n |-> 0, d |-> 1]
Abs == [t |-> "abs", n |-> 0, d |-> 1]

IsNaN(c) == c.t = "nan"

\* a - b on float cells (the operands are "num" cells with d = 1, or NaN)
FSub(a, b) ==
  IF a.t = "num" /\ b.t = "num" THEN Num(a.n - b.n) ELSE NaN

\* numpy float division a / b: never raises; x/0 is +-inf, 0/0 is NaN
FDiv(a, b) ==
  IF a.t # "num" \/ b.t # "num" THEN NaN
  ELSE IF b.n = 0
       THEN (IF a.n = 0 THEN NaN ELSE IF a.n > 0 THEN Inf ELSE NInf)
       ELSE [t |-> "num", n |-> a.n, d |-> b.n]

\* np.log of a float cell
FLog(x) ==
  IF x.t = "inf" THEN Inf
  ELSE IF x.t # "num" THEN NaN
  ELSE IF x.n = 0 THEN NInf
  ELSE IF (x.n < 0) # (x.d < 0) THEN NaN
  ELSE [t |-> "ln", n |-> x.n, d |-> x.d]

\* ------------------------------------------------------------------ tables
None == [kind |-> "None"]

IsTable(x) == x.kind = "table"

Table(cols, idx, rws) ==
  [kind |-> "table", columns |-> cols, index |-> idx, rows |-> rws]

NRows(t) == Len(t.rows)

\* df[c] as a sequence of cells
Col(t, c) == [i \in 1..NRows(t) |-> t.rows[i][c]]

\* df[c] = vals : adds the column, or overwrites it, in place
SetCol(t, c, vals) ==
  Table(t.columns \cup {c}, t.index,
        [i \in 1..NRows(t) |->
           [k \in t.columns \cup {c} |->
              IF k = c THEN vals[i] ELSE t.rows[i][k]]])

\* the elements of s at the positions in keep, in order
Pick(s, keep) ==
  LET F[i \in 0..Len(s)] ==
        IF i = 0 THEN <<>>
        ELSE IF i \in keep THEN Append(F[i - 1], s[i]) ELSE F[i - 1]
  IN F[Len(s)]

\* DataFrame.dropna(): drops every row holding NaN in ANY column
dropna(t) ==
  LET keep == {i \in 1..NRows(t) : \A c \in t.columns : ~IsNaN(t.rows[i][c])}
  IN Table(t.columns, Pick(t.index, keep), Pick(t.rows, keep))

\* Series.shift(k): value of row i - k, NaN outside the table
Shift(vals, k) ==
  [i \in 1..Len(vals) |->
     IF i - k >= 1 /\ i - k <= Len(vals) THEN vals[i - k] ELSE NaN]

\* Series.rolling(w).mean(): NaN unless the window holds w numbers
RollingMean(vals, w) ==
  LET S[i \in 0..Len(vals)] ==
        IF i = 0 THEN 0
        ELSE S[i - 1] + (IF vals[i].t = "num" THEN vals[i].n ELSE 0)
  IN [i \in 1..Len(vals) |->
        IF i >= w /\ \A j \in (i - w + 1)..i : vals[j].t = "num"
        THEN [t |-> "num", n |-> S[i] - S[i - w], d |-> w]
        ELSE NaN]

\* Series.ewm(span).mean() (adjust=True, min_periods=0): a weighted mean of
\* all numbers seen so far; NaN only while no number has been seen
EwmMean(vals) ==
  [i \in 1..Len(vals) |->
     IF \E j \in 1..i : vals[j].t = "num" THEN Abs ELSE NaN]

\* ---------------------------------------------------------------- outcomes
\* The outcome of a call: exc is the exception that escapes it ("none" when
\* it returns), ret the returned value, arg the caller's table object after
\* the call (the methods mutate it in place), log the level logged ("none",
\* "info", "warning", "error"), wrote the paths a write was attempted at.
Outcome(exc, ret, arg, log, wrote) ==
  [exc |-> exc, ret |-> ret, arg |-> arg, log |-> log, wrote |-> wrote]

\* `except Exception as e`: every exception the stages raise derives from
\* Exception (TypeError, KeyError, ValueError, AttributeError, OSError)
CaughtValueErrorOnly(exc) == exc = "ValueError"

Caught(exc) == exc # "none"

\* ------------------------------------------------- process_to_dataframe
CandleColumns ==
  <<"timestamp", "open", "high", "low", "close", "volume", "close_time",
    "quote_volume", "trades", "taker_buy_base", "taker_buy_quote", "ignore">>

NumericCols ==
  {"open", "high", "low", "close", "volume", "quote_volume", "trades",
   "taker_buy_base", "taker_buy_quote"}

\* the keyword the code passes to pd.to_numeric through DataFrame.apply
ToNumericKeyword == "error"

\* the keywords pd.to_numeric accepts
ToNumericParams == {"errors", "downcast", "dtype_backend"}

\* raw field values: a number (or numeric string), garbage, or absent
RawNum(v) == [raw |-> "num", v |-> v]
RawGarbage == [raw |-> "garbage", v |-> 0]
RawNone == [raw |-> "none", v |-> 0]

\* pd.to_numeric(x, errors='coerce') on one cell
Coerce(x) == IF x.raw = "num" THEN Num(x.v) ELSE NaN

\* a cell of a column that is not converted
Object(x) ==
  IF x.raw = "num" THEN Num(x.v)
  ELSE IF x.raw = "none" THEN NaN
  ELSE [t |-> "str", n |-> 0, d |-> 1]

MaxWidth(klines) ==
  IF klines = <<>> THEN 0
  ELSE CHOOSE w \in {Len(klines[i]) : i \in 1..Len(klines)} :
         \A i \in 1..Len(klines) : Len(klines[i]) <= w

\* pd.DataFrame(klines, columns=columns): short rows are padded with None
RawCell(row, j) == IF j <= Len(row) THEN row[j] ELSE RawNone

ColPos(c) == CHOOSE j \in 1..RowWidth : CandleColumns[j] = c

\* The try-body of process_to_dataframe (lines 18-30).
process_to_dataframe_body(klines) ==
  LET n == Len(klines) IN
  IF n > 0 /\ MaxWidth(klines) # RowWidth
  THEN Outcome("ValueError", None, None, "none", <<>>)
  \* DataFrame.apply calls the function on every column of a frame with
  \* rows; on a frame without rows it only probes it and swallows the error
  ELSE IF n > 0 /\ ToNumericKeyword \notin ToNumericParams
  THEN Outcome("TypeError", None, None, "none", <<>>)
  ELSE IF \E i \in 1..n : RawCell(klines[i], ColPos("timestamp")).raw # "num"
  THEN Outcome("ValueError", None, None, "none", <<>>)
  ELSE
    LET cols == ({CandleColumns[j] : j \in 1..RowWidth} \ {"timestamp"})
                  \cup {"timestamps"}
        row(i) ==
          [c \in cols |->
             IF c = "timestamps"
             THEN Num(RawCell(klines[i], ColPos("timestamp")).v)
             ELSE IF c \in NumericCols
                  THEN Coerce(RawCell(klines[i], ColPos(c)))
                  ELSE Object(RawCell(klines[i], ColPos(c)))]
        t == Table(cols,
                   [i \in 1..n |-> RawCell(klines[i], ColPos("timestamp")).v],
                   [i \in 1..n |-> row(i)])
    IN Outcome("none", t, None, "none", <<>>)

process_to_dataframe(klines) ==
  LET b == process_to_dataframe_body(klines) IN
  IF Caught(b.exc) THEN Outcome("none", None, None, "error", <<>>) ELSE b

\* ----------------------------------------------- add_technical_features
\* The try-body (lines 39-52), statement by statement: a missing column
\* raises KeyError at the first statement that reads it, after the earlier
\* statements have already added their columns to the caller's table.
add_technical_features_body(t) ==
  IF ~IsTable(t) THEN Outcome("TypeError", None, t, "none", <<>>)
  ELSE IF "close" \notin t.columns
  THEN Outcome("KeyError", None, t, "none", <<>>)
  ELSE
  LET close == Col(t, "close")
      sh == Shift(close, 1)
      t1 == SetCol(t, "log_returns",
                   [i \in 1..NRows(t) |-> FLog(FDiv(close[i], sh[i]))])
  IN
  IF ~({"taker_buy_quote", "quote_volume"} \subseteq t1.columns)
  THEN Outcome("KeyError", None, t1, "none", <<>>)
  ELSE
  LET t2 == SetCol(t1, "taker_buy_ratio",
                   [i \in 1..NRows(t) |->
                      FDiv(t1.rows[i]["taker_buy_quote"],
                           t1.rows[i]["quote_volume"])])
  IN
  IF ~({"high", "low"} \subseteq t2.columns)
  THEN Outcome("KeyError", None, t2, "none", <<>>)
  ELSE
  LET t3 == SetCol(t2, "liquidity_gap",
                   [i \in 1..NRows(t) |->
                      FDiv(FSub(t2.rows[i]["high"], t2.rows[i]["low"]),
                           close[i])])
  IN
  IF "open" \notin t3.columns
  THEN Outcome("KeyError", None, t3, "none", <<>>)
  ELSE
  LET t4 == SetCol(t3, "price_spread",
                   [i \in 1..NRows(t) |-> FSub(close[i], t3.rows[i]["open"])])
      t5 == SetCol(t4, "sma_20", RollingMean(close, SmaWindow))
      ema == EwmMean(close)
      t6 == SetCol(t5, "ema_12", ema)
      t7 == SetCol(t6, "ema_26", ema)
      t8 == SetCol(t7, "macd",
                   [i \in 1..NRows(t) |->
                      IF ema[i].t = "abs" THEN Abs ELSE NaN])
  IN Outcome("none", dropna(t8), t8, "none", <<>>)

\* except Exception: log the error and return df, the caller's table as the
\* statements before the failure left it
add_technical_features(t) ==
  LET b == add_technical_features_body(t) IN
  IF Caught(b.exc) THEN Outcome("none", b.arg, b.arg, "error", <<>>) ELSE b

\* ------------------------------------------------- calculate_volatility
\* positions of the non-missing returns: df['log_returns'].dropna()
Returns(t) == {i \in 1..NRows(t) : ~IsNaN(t.rows[i]["log_returns"])}

HasDuplicates(idx) ==
  \E i, j \in 1..Len(idx) : i # j /\ idx[i] = idx[j]

\* The try-body (lines 60-71).  fit is the outcome of arch_model(...).fit():
\* "ok" or "fail" (the optimiser is not guaranteed to converge); returns
\* that are not finite make the fit fail whatever the optimiser does.
\* When len(returns) > 10 is false the body ends without a return statement.
calculate_volatility_body(t, fit) ==
  IF ~IsTable(t) THEN Outcome("TypeError", None, t, "none", <<>>)
  ELSE IF "log_returns" \notin t.columns
  THEN Outcome("KeyError", None, t, "none", <<>>)
  ELSE IF Cardinality(Returns(t)) > GarchMinObs
  THEN IF \/ fit = "fail"
          \/ \E i \in Returns(t) : t.rows[i]["log_returns"].t \in {"inf", "ninf"}
          \/ HasDuplicates(t.index) /\ Returns(t) # 1..NRows(t)
       THEN Outcome("ValueError", None, t, "none", <<>>)
       ELSE LET g == SetCol(t, "garch_volatility",
                            [i \in 1..NRows(t) |->
                               IF i \in Returns(t) THEN Abs ELSE NaN])
            IN Outcome("none", g, g, "none", <<>>)
  ELSE Outcome("none", None, t, "none", <<>>)

\* except Exception: warn, df["garch_volatility"] = np.nan, return df.  The
\* assignment in the handler raises in its turn when df is not a table.
calculate_volatility(t, fit) ==
  LET b == calculate_volatility_body(t, fit) IN
  IF Caught(b.exc)
  THEN IF IsTable(b.arg)
       THEN LET g == SetCol(b.arg, "garch_volatility",
                            [i \in 1..NRows(b.arg) |-> NaN])
            IN Outcome("none", g, g, "warning", <<>>)
       ELSE Outcome("TypeError", None, b.arg, "warning", <<>>)
  ELSE b

\* ------------------------------------------------ prepare_training_data
Features ==
  {"log_returns", "taker_buy_ratio", "liquidity_gap", "garch_volatility",
   "macd", "sma_20"}

\* np.where(close.shift(-h) < close * 0.95, 0, 1): a comparison with NaN is
\* false, so the rows without a future close get 1
Target(t, h) ==
  LET close == Col(t, "close")
      fut == Shift(close, -h)
  IN [i \in 1..NRows(t) |->
        IF /\ close[i].t = "num" /\ fut[i].t = "num"
           /\ fut[i].n * DropDen < close[i].n * DropNum
        THEN Num(0) ELSE Num(1)]

Pair(X, y) == [kind |-> "pair", X |-> X, y |-> y]

\* The try-body (lines 81-92).  self.scaler is read from the instance, whose
\* attributes are those in `at`.
prepare_training_data_body(t, h, at) ==
  IF ~IsTable(t) THEN Outcome("TypeError", None, t, "none", <<>>)
  ELSE IF "close" \notin t.columns
  THEN Outcome("KeyError", None, t, "none", <<>>)
  ELSE
  LET t1 == SetCol(t, "target", Target(t, h)) IN
  IF "scaler" \notin at
  THEN Outcome("AttributeError", None, t1, "none", <<>>)
  ELSE IF ~(Features \subseteq t1.columns)
  THEN Outcome("KeyError", None, t1, "none", <<>>)
  ELSE
  LET keep == {i \in 1..NRows(t1) :
                 \A c \in Features : ~IsNaN(t1.rows[i][c])}
  IN
  \* MinMaxScaler.fit_transform rejects an empty or a non-finite matrix
  IF \/ keep = {}
     \/ \E i \in keep, c \in Features : t1.rows[i][c].t \in {"inf", "ninf"}
  THEN Outcome("ValueError", None, t1, "none", <<>>)
  ELSE Outcome("none",
               Pair([kind |-> "matrix", index |-> Pick(t1.index, keep)],
                    [kind |-> "series", index |-> t1.index,
                     values |-> Col(t1, "target")]),
               t1, "none", <<>>)

prepare_training_data(t, h, at) ==
  LET b == prepare_training_data_body(t, h, at) IN
  IF Caught(b.exc)
  THEN Outcome("none", Pair(None, None), b.arg, "error", <<>>)
  ELSE b

\* ------------------------------------------------------------- save_data
\* A filename is the sequence of its components between "/" separators:
\* "../../etc/passwd" is <<"..", "..", "etc", "passwd">>, "/etc/passwd" is
\* <<"", "etc", "passwd">>, "" is <<"">>.
OutDir == <<"data", "processed">>

\* PurePath parsing keeps the components other than "" and "."
PathTail(f) == SelectSeq(f, LAMBDA c : c \notin {"", "."})

\* Path(filename).name: the last component kept, "" when there is none
PathName(f) == IF PathTail(f) = <<>> THEN "" ELSE PathTail(f)[Len(PathTail(f))]

\* Path('data/processed') / name
SafePath(f) == IF PathName(f) = "" THEN OutDir ELSE Append(OutDir, PathName(f))

\* where the file system resolves a relative path: ".." steps to the parent
Resolve(p) ==
  LET F[i \in 0..Len(p)] ==
        IF i = 0 THEN <<>>
        ELSE IF p[i] = ".."
             THEN (IF F[i - 1] = <<>> \/ F[i - 1][Len(F[i - 1])] = ".."
                   THEN Append(F[i - 1], "..")
                   ELSE SubSeq(F[i - 1], 1, Len(F[i - 1]) - 1))
             ELSE Append(F[i - 1], p[i])
  IN F[Len(p)]

Bool(b) == [kind |-> "bool", v |-> b]

\* The try-body (lines 99-102).  io is the outcome of the write when the
\* path names a file: "ok" or "fail".  A path that resolves to a directory
\* cannot be written.
save_data_body(t, f, io) ==
  IF ~IsTable(t) THEN Outcome("AttributeError", Bool(FALSE), t, "none", <<>>)
  ELSE IF io = "fail" \/ Len(Resolve(SafePath(f))) # Len(OutDir) + 1
  THEN Outcome("OSError", Bool(FALSE), t, "none", <<SafePath(f)>>)
  ELSE Outcome("none", Bool(TRUE), t, "info", <<SafePath(f)>>)

save_data(t, f, io) ==
  LET b == save_data_body(t, f, io) IN
  IF Caught(b.exc)
  THEN Outcome("none", Bool(FALSE), b.arg, "error", b.wrote)
  ELSE b

\* ---------------------------------------------------------- full_pipeline
\* `if df is None: return None` after the normalizer
NormalizeFailedIgnored(r) == FALSE

NormalizeFailed(r) == ~IsTable(r)

\* `if save_as:` : None and the empty string are falsy
TruthyAlways(s) == TRUE

Truthy(s) == s.given /\ s.name # <<"">>

\* ------------------------------------------------------------------ inputs
\* Raw candle row i of a well-formed series with the close prices 101, 102,
\* ... and constant volume and quote volumes.
RawRow(i) ==
  <<RawNum(i), RawNum(100 + i - 1), RawNum(100 + i + 2), RawNum(100 + i - 2),
    RawNum(100 + i), RawNum(10), RawNum(i), RawNum(1000), RawNum(5),
    RawNum(4), RawNum(400), RawNum(0)>>

KlineKinds == {"clean", "garbage", "short", "long"}

\* n rows; "garbage": the close of row 1 is not a number; "short" / "long":
\* row 1 has 11 / 13 fields
KlinesOf(n, g) ==
  [i \in 1..n |->
     IF i # 1 \/ g = "clean" THEN RawRow(i)
     ELSE IF g = "garbage" THEN [RawRow(i) EXCEPT ![5] = RawGarbage]
     ELSE IF g = "short" THEN SubSeq(RawRow(i), 1, RowWidth - 1)
     ELSE Append(RawRow(i), RawNum(0))]

KlinesInputs == {KlinesOf(n, g) : n \in 0..MaxKlines, g \in KlineKinds}

\* the 25 synthetic rows of the end-to-end scenario
Klines25 == KlinesOf(25, "clean")

Shapes == {"rising", "crash"}

Required == {"close", "quote_volume", "taker_buy_quote", "high", "low", "open"}

Defects == {"none", "nan_trades", "zero_qv", "zero_qv_tbq", "nan_qv", "nan_close"}

CloseAt(i, shape) ==
  IF shape = "rising" THEN 100 + i ELSE IF i % 4 = 0 THEN 90 ELSE 100

\* A candle table as a caller may hold it: n rows, the closes of the shape,
\* one defect in its last row, the columns in `miss` absent.
BaseTable(n, shape, miss, defect) ==
  LET cols == ({CandleColumns[j] : j \in 1..RowWidth} \ {"timestamp"})
                \cup {"timestamps"}
      c(i) == CloseAt(i, shape)
      full(i) ==
        [timestamps |-> Num(i), open |-> Num(c(i) - 1), high |-> Num(c(i) + 2),
         low |-> Num(c(i) - 2),
         close |-> IF i = n /\ defect = "nan_close" THEN NaN ELSE Num(c(i)),
         volume |-> Num(10), close_time |-> Num(i),
         quote_volume |->
           IF i = n /\ defect \in {"zero_qv", "zero_qv_tbq"} THEN Num(0)
           ELSE IF i = n /\ defect = "nan_qv" THEN NaN ELSE Num(1000),
         trades |-> IF i = n /\ defect = "nan_trades" THEN NaN ELSE Num(5),
         taker_buy_base |-> Num(4),
         taker_buy_quote |->
           IF i = n /\ defect = "zero_qv_tbq" THEN Num(0) ELSE Num(400),
         ignore |-> Num(0)]
  IN Table(cols \ miss, [i \in 1..n |-> i],
           [i \in 1..n |-> [k \in cols \ miss |-> full(i)[k]]])

BaseTables ==
  {BaseTable(n, sh, {}, d) : n \in 0..MaxRows, sh \in Shapes, d \in Defects}
  \cup {BaseTable(n, sh, {m}, "none") :
          n \in 0..MaxRows, sh \in Shapes, m \in Required}

Fits == {"ok", "fail"}

\* tables a caller passes on from one stage to the next
FeatureTables == {add_technical_features(b).ret : b \in BaseTables}

VolatilityTables ==
  {calculate_volatility(f, fit).ret : f \in FeatureTables, fit \in Fits}

Components == {"", ".", "..", "etc", "passwd"}

FileNames ==
  UNION {[1..k -> Components] : k \in 1..MaxPathLen}

NoName == [given |-> FALSE, name |-> <<"">>]
Name(f) == [given |-> TRUE, name |-> f]

PipelineNames ==
  {NoName, Name(<<"">>), Name(<<"passwd">>), Name(<<"..">>),
   Name(<<"..", "..", "etc", "passwd">>)}

Req(op, klines, t, h, f, s, fit, io) ==
  [op |-> op, klines |-> klines, df |-> t, h |-> h, filename |-> f,
   save_as |-> s, fit |-> fit, io |-> io]

Requests ==
  {Req("process_to_dataframe", k, None, 1, <<"">>, NoName, "ok", "ok") :
     k \in KlinesInputs}
  \cup {Req("add_technical_features", <<>>, t, 1, <<"">>, NoName, "ok", "ok") :
          t \in BaseTables \cup {None}}
  \cup {Req("calculate_volatility", <<>>, t, 1, <<"">>, NoName, fit, "ok") :
          t \in FeatureTables \cup {None}, fit \in Fits}
  \cup {Req("prepare_training_data", <<>>, t, h, <<"">>, NoName, "ok", "ok") :
          t \in VolatilityTables \cup FeatureTables, h \in 1..MaxH}
  \cup {Req("save_data", <<>>, t, 1, f, NoName, "ok", io) :
          t \in {None, BaseTable(1, "rising", {}, "none")},
          f \in FileNames, io \in Fits}
  \cup {Req("full_pipeline", k, None, 1, <<"">>, s, fit, io) :
          k \in KlinesInputs, s \in PipelineNames, fit \in Fits, io \in Fits}

\* ----------------------------------------------------------- state machine
Pending == [kind |-> "pending"]

\* __init__ sets self.logger and nothing else
Init ==
  /\ req \in Requests
  /\ pc = "call"
  /\ attrs = {"logger"}
  /\ df = req.df
  /\ out = Pending
  /\ raised = FALSE
  /\ logs = <<>>
  /\ trace = <<>>
  /\ writes = <<>>

Logged(name, o) == IF o.log = "none" THEN <<>> ELSE <<<<name, o.log>>>>

\* a direct call of one method: it returns o.ret or raises o.exc
Return(name, o) ==
  /\ pc' = "done"
  /\ out' = o.ret
  /\ raised' = (o.exc # "none")
  /\ df' = o.arg
  /\ logs' = logs \o Logged(name, o)
  /\ trace' = Append(trace, [stage |-> name, ret |-> o.ret])
  /\ writes' = writes \o o.wrote
  /\ UNCHANGED <<req, attrs>>

ProcessToDataframe ==
  /\ pc = "call" /\ req.op = "process_to_dataframe"
  /\ Return("process_to_dataframe", process_to_dataframe(req.klines))

AddTechnicalFeatures ==
  /\ pc = "call" /\ req.op = "add_technical_features"
  /\ Return("add_technical_features", add_technical_features(df))

CalculateVolatility ==
  /\ pc = "call" /\ req.op = "calculate_volatility"
  /\ Return("calculate_volatility", calculate_volatility(df, req.fit))

PrepareTrainingData ==
  /\ pc = "call" /\ req.op = "prepare_training_data"
  /\ Return("prepare_training_data", prepare_training_data(df, req.h, attrs))

SaveData ==
  /\ pc = "call" /\ req.op = "save_data"
  /\ Return("save_data", save_data(df, req.filename, req.io))

\* One stage call inside full_pipeline's try block: stage `name` has ended
\* with outcome o; an exception leaves the try block for the handler of line
\* 121, which logs it and returns None; otherwise the run goes on at `next`
\* with the table `t`.
Stage(name, o, t, next) ==
  /\ trace' = Append(trace, [stage |-> name, ret |-> o.ret])
  /\ writes' = writes \o o.wrote
  /\ IF o.exc # "none"
     THEN /\ pc' = "done"
          /\ df' = df
          /\ raised' = ~Caught(o.exc)
          /\ out' = IF Caught(o.exc) THEN None ELSE Pending
          /\ logs' = logs \o Logged(name, o) \o <<<<"full_pipeline", "error">>>>
     ELSE /\ pc' = next
          /\ df' = t
          /\ logs' = logs \o Logged(name, o)
          /\ UNCHANGED <<out, raised>>
  /\ UNCHANGED <<req, attrs>>

\* df = self.process_to_dataframe(klines); if df is None: return None
PipeNormalize ==
  /\ pc = "call" /\ req.op = "full_pipeline"
  /\ LET o == process_to_dataframe(req.klines) IN
     IF o.exc = "none" /\ NormalizeFailed(o.ret)
     THEN /\ pc' = "done"
          /\ out' = None
          /\ trace' = Append(trace, [stage |-> "process_to_dataframe",
                                     ret |-> o.ret])
          /\ logs' = logs \o Logged("process_to_dataframe", o)
          /\ UNCHANGED <<req, attrs, df, raised, writes>>
     ELSE Stage("process_to_dataframe", o, o.ret, "features")

\* df = self.add_technical_features(df)
PipeFeatures ==
  /\ pc = "features"
  /\ LET o == add_technical_features(df) IN
     Stage("add_technical_features", o, o.ret, "volatility")

\* df = self.calculate_volatility(df)
PipeVolatility ==
  /\ pc = "volatility"
  /\ LET o == calculate_volatility(df, req.fit) IN
     Stage("calculate_volatility", o, o.ret,
           IF Truthy(req.save_as) THEN "save" ELSE "return")

\* self.save_data(df, save_as): the returned flag is dropped
PipeSave ==
  /\ pc = "save"
  /\ LET o == save_data(df, req.save_as.name, req.io) IN
     Stage("save_data", o, df, "return")

\* return df
PipeReturn ==
  /\ pc = "return"
  /\ pc' = "done"
  /\ out' = df
  /\ UNCHANGED <<req, attrs, df, raised, logs, trace, writes>>

Next ==
  \/ ProcessToDataframe
  \/ AddTechnicalFeatures
  \/ CalculateVolatility
  \/ PrepareTrainingData
  \/ SaveData
  \/ PipeNormalize
  \/ PipeFeatures
  \/ PipeVolatility
  \/ PipeSave
  \/ PipeReturn

Spec == Init /\ [][Next]_vars

\* ------------------------------------------------------------------ claims
StagesRun == {trace[i].stage : i \in 1..Len(trace)}

ErrorLogged(name) == \E i \in 1..Len(logs) : logs[i] = <<name, "error">>

IsNone(x) == x.kind = "None"

InPipeline == req.op = "full_pipeline"

C2_VolatilityAlwaysTable ==
  (req.op = "calculate_volatility" /\ pc = "done" /\ IsTable(req.df)) =>
    /\ ~raised
    /\ IsTable(out)
    /\ "garch_volatility" \in out.columns
    /\ ( \/ "log_returns" \notin req.df.columns
         \/ Cardinality(Returns(req.df)) < GarchMinObs
         \/ req.fit = "fail" ) =>
         \A i \in 1..NRows(out) : IsNaN(out.rows[i]["garch_volatility"])

WellShaped(klines) == \A i \in 1..Len(klines) : Len(klines[i]) = RowWidth

\* C3: for well-shaped 12-field rows process_to_dataframe returns a table
\* with one row per input row, in input order, whose numeric cells are the
\* floats of the coercible fields and the missing marker for the others.
C3_NormalizeKeepsRows ==
  (req.op = "process_to_dataframe" /\ pc = "done" /\ WellShaped(req.klines)) =>
    /\ IsTable(out)
    /\ NRows(out) = Len(req.klines)
    /\ \A i \in 1..Len(req.klines) :
         /\ out.index[i] = req.klines[i][ColPos("timestamp")].v
         /\ \A c \in NumericCols :
              out.rows[i][c] = Coerce(req.klines[i][ColPos(c)])

\* C4: full_pipeline on the 25 rising rows returns a table of 25 - 19 = 6
\* rows, and the labels built from it with horizon 3 are all 1.
C4_Scenario ==
  (InPipeline /\ req.klines = Klines25 /\ pc = "done") =>
    /\ IsTable(out)
    /\ NRows(out) = 25 - (SmaWindow - 1)
    /\ LET y == prepare_training_data(out, 3, attrs).ret.y IN
       /\ y.kind = "series"
       /\ \A i \in 1..Len(y.values) : y.values[i] = Num(1)

PrepareCase ==
  /\ req.op = "prepare_training_data" /\ pc = "done"
  /\ IsTable(req.df)
  /\ Features \cup {"close"} \subseteq req.df.columns

\* C5: the label vector of prepare_training_data has an entry exactly for
\* the rows t with t + h inside the table, and the entry is 0 if
\* close[t+h] < close[t] * 0.95 and 1 otherwise.
C5_Labels ==
  PrepareCase =>
    LET n == NRows(req.df)
        h == req.h
        m == IF n > h THEN n - h ELSE 0
        y == out.y
    IN /\ y.kind = "series"
       /\ y.index = SubSeq(req.df.index, 1, m)
       /\ \A i \in 1..m :
            y.values[i] =
              IF req.df.rows[i + h]["close"].n * DropDen
                   < req.df.rows[i]["close"].n * DropNum
              THEN Num(0) ELSE Num(1)

CompleteRows(t) ==
  {i \in 1..NRows(t) : \A c \in Features : ~IsNaN(t.rows[i][c])}

\* C6: on a fresh DataProcessor, for a table with close and the six features
\* and at least one complete row, prepare_training_data returns a present
\* (matrix, labels) pair whose rows belong to the same timestamps.
C6_AlignedPair ==
  (PrepareCase /\ CompleteRows(req.df) # {}) =>
    /\ out.X.kind = "matrix"
    /\ out.y.kind = "series"
    /\ out.X.index = out.y.index

\* C7: every path save_data attempts to write is a file directly inside
\* data/processed, named by the base name of the filename.
C7_WriteInsideOutDir ==
  (req.op = "save_data" /\ pc = "done") =>
    \A i \in 1..Len(writes) :
      LET p == Resolve(writes[i]) IN
      /\ Len(p) = Len(OutDir) + 1
      /\ SubSeq(p, 1, Len(OutDir)) = OutDir
      /\ p[Len(p)] = PathName(req.filename)

SaveCalls == {i \in 1..Len(trace) : trace[i].stage = "save_data"}

\* C8: in full_pipeline save_data is called only when a destination was
\* supplied, only right after calculate_volatility has returned, and at most
\* once; the value returned is the one calculate_volatility returned,
\* whatever the save did.
C8_SaveOptionalTerminal ==
  InPipeline =>
    /\ Cardinality(SaveCalls) <= 1
    /\ \A i \in SaveCalls :
         /\ req.save_as.given
         /\ i > 1 /\ trace[i - 1].stage = "calculate_volatility"
    /\ pc = "done" =>
         \A j \in 1..Len(trace) :
           trace[j].stage = "calculate_volatility" => out = trace[j].ret

\* a run that called save_data, whose write failed, has returned
C8_Witness ==
  /\ InPipeline /\ pc = "done" /\ SaveCalls # {}
  /\ trace[Len(trace)].ret = Bool(FALSE)

\* C9: no exception escapes full_pipeline: it ends by returning a table or
\* None.
C9_NoEscape ==
  InPipeline =>
    /\ ~raised
    /\ pc = "done" => (IsTable(out) \/ IsNone(out))

\* a run on malformed rows (a row of 13 fields) has returned None
C9_Witness ==
  /\ InPipeline /\ pc = "done" /\ ~raised /\ IsNone(out)
  /\ ~WellShaped(req.klines)
  /\ logs = <<<<"process_to_dataframe", "error">>>>

\* C10: when add_technical_features fails on a missing required column the
\* table it returns is the unmodified input.
C10_FailureReturnsInput ==
  ( /\ req.op = "add_technical_features" /\ pc = "done"
    /\ IsTable(req.df)
    /\ Cardinality(Required \ req.df.columns) = 1 ) =>
    /\ ErrorLogged("add_technical_features")
    /\ out = req.df

\* a direct call of add_technical_features on a table with every required
\* column has returned: df is the caller's table with the derived columns,
\* out the table returned
FeaturesDone ==
  /\ req.op = "add_technical_features" /\ pc = "done"
  /\ IsTable(req.df) /\ Required \subseteq req.df.columns

InOutput(ts) == \E j \in 1..Len(out.index) : out.index[j] = ts

\* C11: in add_technical_features no division fault is raised, and every row
\* whose quote_volume is zero or missing gets the missing marker as its
\* taker_buy_ratio and does not reach the returned table.
C11_ZeroDenominatorMissing ==
  FeaturesDone =>
    /\ ~raised /\ ~ErrorLogged("add_technical_features")
    /\ \A i \in 1..NRows(req.df) :
         LET qv == req.df.rows[i]["quote_volume"] IN
         (IsNaN(qv) \/ (qv.t = "num" /\ qv.n = 0)) =>
           /\ IsNaN(df.rows[i]["taker_buy_ratio"])
           /\ ~InOutput(req.df.index[i])

Derived ==
  {"log_returns", "taker_buy_ratio", "liquidity_gap", "price_spread",
   "sma_20", "ema_12", "ema_26", "macd"}

\* the rows of the caller's table none of whose derived features is missing
DefinedRows ==
  {i \in 1..NRows(df) : \A c \in Derived : ~IsNaN(df.rows[i][c])}

\* C12: the finalization of add_technical_features drops a row if and only
\* if one of its derived features is undefined: the returned table holds,
\* in input order, exactly the rows whose derived features are all defined
\* (a missing value in another column removes no row), and every column.
C12_FilterOnFeaturesOnly ==
  FeaturesDone =>
    /\ out.columns = df.columns
    /\ out.index = Pick(df.index, DefinedRows)
    /\ out.rows = Pick(df.rows, DefinedRows)

====
